---- MODULE Spec2Model ----
(***************************************************************************)
(* Saldus: the weekly creation quota of the Transactions and Clients pages *)
(* and the reconciliation of the subscription state between the billing    *)
(* processor and the profiles table.                                       *)
(*                                                                         *)
(* Time is counted in whole days.  A query of the store is one step at the *)
(* moment its response is handled: the store's work and the client's       *)
(* continuation after the await happen together in that step.  An          *)
(* execution of check-subscription is a step for each of its awaits.       *)
(***************************************************************************)
EXTENDS Integers, Sequences, FiniteSets

\* ------------------------------------------------------------- bounds
MaxTime == 9
MaxRows == 6
\* the subscriptions Stripe can hold, the executions a tab has under way
MaxSubs == 2
MaxPending == 1

\* -------------------------------------------------- program constants
\* oneWeekAgo.setDate(oneWeekAgo.getDate() - 7)
WindowDays == 7
\* user.planType === 'free' ? 5 : Infinity
FreeLimit == 5
\* JavaScript's Infinity: every count is below it
Infinity == 1000000

Kinds == {"transactions", "clients"}
Owners == {"o1", "o2"}
Me == "o1"
Other == "o2"
TabIds == {"t1", "t2"}
Times == 0..MaxTime
StartDay == WindowDays + 1
Plans == {"free", "pro"}
\* The views that call useSubscription: Dashboard and the SubscriptionCard.
HookPages == {"dashboard", "subscription"}
\* The executions of check-subscription a tab has under way: in the first tab
\* a call is sent when the one before has ended, in the second tab calls
\* overlap.
MaxCalls == [t \in TabIds |-> IF t = "t2" THEN MaxPending + 1 ELSE MaxPending]
Slots == 1..(MaxPending + 1)

VARIABLES
  now,          \* the clock, in days
  rows,         \* rows[o][k][d]: rows of table k owned by o with created_at = d
  user,         \* AuthContext's user state
  page,         \* page[t]: the page mounted in tab t
  weeklyLimit,  \* the page's weeklyLimit state
  openDialog,   \* the page's openDialog state
  editing,      \* the page's editingTransaction / editingClient is not null
  submit,       \* the insert or update handleSubmit is awaiting
  checks,       \* the count queries of checkWeekly*Limit awaiting a response
  loads,        \* a loadClients call is awaiting its response
  views,        \* the pages the owner uses in this run, as <<tab, page>>
  profile,      \* the owner's row of the profiles table: its plan columns
  ledger,       \* Stripe: the customer of the owner's email, its active subscriptions
  calls,        \* calls[t]: the check-subscription executions invoked from tab t
  status,       \* status[t]: the status state of useSubscription in tab t
  href,         \* href[t]: where window.location of tab t points
  done,         \* history: the last check-subscription that returned a snapshot
  timer,        \* timer[t]: the interval of the polling effect of tab t
  query,        \* query[t]: the checkout parameter of the URL of tab t
  delayed,      \* delayed[t]: the timeout of the checkout-return effect of tab t
  auth,         \* AuthContext: loading and the signUp, signIn or deleteAccount under way
  supabase      \* Supabase: the stored session, the rows of auth.users and of public.profiles

billVars == <<profile, ledger, calls, status, href, done>>

hookVars == <<timer, query, delayed>>

acctVars == <<auth, supabase>>

vars == <<now, rows, user, page, weeklyLimit, openDialog, editing, submit,
          checks, loads, views, billVars, hookVars, acctVars>>

pageVars == <<page, weeklyLimit, openDialog, editing, submit, checks, loads>>

\* ------------------------------------------------------ Resource Store
RECURSIVE SumFrom(_, _)
SumFrom(f, d) == IF d > MaxTime THEN 0 ELSE f[d] + SumFrom(f, d + 1)

\* The filter written with .gt instead of .gte.
CountSince_gt(k, uid, since) ==
  SumFrom(rows[uid][k], IF since + 1 < 0 THEN 0 ELSE since + 1)

\* One count over both tables.
CountSince_bothTables(k, uid, since) ==
  SumFrom(rows[uid]["transactions"], IF since < 0 THEN 0 ELSE since)
    + SumFrom(rows[uid]["clients"], IF since < 0 THEN 0 ELSE since)

\* .from(k).select('*', {count: 'exact', head: true})
\*   .eq('user_id', uid).gte('created_at', since)
CountSince(k, uid, since) ==
  SumFrom(rows[uid][k], IF since < 0 THEN 0 ELSE since)

\* The rows the signed-in owner has in both tables.
TotalRows == CountSince("transactions", Me, 0) + CountSince("clients", Me, 0)

\* An insert that the store refuses at the limit.
InsertRow_checked(k, uid) ==
  IF CountSince(k, uid, now - WindowDays) < FreeLimit
  THEN [rows EXCEPT ![uid][k][now] = @ + 1] ELSE rows

\* .from(k).insert({user_id: uid, ...}); created_at DEFAULT CURRENT_TIMESTAMP
InsertRow(k, uid) == [rows EXCEPT ![uid][k][now] = @ + 1]

\* A delete that keeps the row in the table.
DeleteRow_keepsRow(k, uid, d) == rows

\* .from(k).delete().eq('id', id), the row identified by its creation day
DeleteRow(k, uid, d) == [rows EXCEPT ![uid][k][d] = @ - 1]

\* ------------------------------------------------------- Quota check
\* A window aligned on the calendar week instead of sliding.
OneWeekAgo_calendarWeek(t) == t - (t % WindowDays)

\* const oneWeekAgo = new Date(); oneWeekAgo.setDate(oneWeekAgo.getDate() - 7)
OneWeekAgo(t) == t - WindowDays

\* The comparison written with <= instead of <.
QuotaResult_atMost(planType, count) ==
  LET limit == IF planType = "free" THEN FreeLimit ELSE Infinity
  IN  [count |-> count, limit |-> limit,
       canCreate |-> (planType = "pro" \/ count <= limit)]

\* const weeklyLimit = user.planType === 'free' ? 5 : Infinity;
\* const canCreate = user.planType === 'pro' || count < weeklyLimit;
QuotaResult(planType, count) ==
  LET limit == IF planType = "free" THEN FreeLimit ELSE Infinity
  IN  [count |-> count, limit |-> limit,
       canCreate |-> (planType = "pro" \/ count < limit)]

\* useState({count: 0, limit: 5, canCreate: true})
InitialLimit == [count |-> 0, limit |-> FreeLimit, canCreate |-> TRUE]

\* The request checkWeekly*Limit sends: the instant new Date() gave, the lower
\* bound of the window, and the user of the render that made the call (read
\* again after the await).  Requests that are equal are in flight once and
\* answered together.
CheckRequest == [at |-> now, since |-> OneWeekAgo(now), planType |-> user.planType]

\* ------------------------------------------------------------ pages
\* useEffect(() => { if (user) { load...(); checkWeekly...Limit(); } }, [user])
Mount(t, k) ==
  /\ <<t, k>> \in views
  /\ k \in Kinds
  /\ page[t] = "none"
  /\ href[t] = "app"
  /\ user.id # "none"
  /\ page' = [page EXCEPT ![t] = k]
  /\ weeklyLimit' = [weeklyLimit EXCEPT ![t] = InitialLimit]
  /\ openDialog' = [openDialog EXCEPT ![t] = FALSE]
  /\ editing' = [editing EXCEPT ![t] = FALSE]
  /\ submit' = [submit EXCEPT ![t] = "idle"]
  /\ checks' = [checks EXCEPT ![t] = {CheckRequest}]
  /\ loads' = [loads EXCEPT ![t] = (k = "clients")]
  /\ UNCHANGED <<now, rows, user, views, acctVars, billVars, hookVars>>

\* checkWeeklyTransactionLimit / checkWeeklyClientLimit, from the response
\* of the count query r on: ok is the query's success.
checkWeeklyLimit(t, r, ok) ==
  /\ page[t] \in Kinds
  /\ r \in checks[t]
  /\ checks' = [checks EXCEPT ![t] = @ \ {r}]
  /\ weeklyLimit' =
       IF ok
       THEN [weeklyLimit EXCEPT ![t] =
               QuotaResult(r.planType, CountSince(page[t], Me, r.since))]
       ELSE weeklyLimit
  /\ UNCHANGED <<now, rows, user, page, openDialog, editing, submit, loads, views, acctVars, billVars, hookVars>>

\* loadClients' response: finally { setIsLoading(false); checkWeeklyClientLimit(); }
loadClients(t) ==
  /\ page[t] = "clients"
  /\ loads[t]
  /\ loads' = [loads EXCEPT ![t] = FALSE]
  /\ checks' = [checks EXCEPT ![t] = @ \cup {CheckRequest}]
  /\ UNCHANGED <<now, rows, user, page, weeklyLimit, openDialog, editing, submit, views, acctVars, billVars, hookVars>>

\* A gate that does not look at the row being edited.
QuotaRefuses_alsoEdits(t, isEdit) ==
  ~weeklyLimit[t].canCreate /\ user.planType = "free"

\* The quota gate of handleOpenDialog, of handleSubmit and of the disabled
\* "new" button: !weeklyLimit.canCreate && !row && user.planType === 'free'
QuotaRefuses(t, isEdit) ==
  ~weeklyLimit[t].canCreate /\ ~isEdit /\ user.planType = "free"

\* handleOpenDialog(row?): isEdit says that a row was passed.  A refusal
\* raises a toast and changes no state.
handleOpenDialog(t, isEdit) ==
  /\ page[t] \in Kinds
  /\ ~openDialog[t]
  /\ isEdit => CountSince(page[t], Me, 0) > 0
  /\ ~QuotaRefuses(t, isEdit)
  /\ editing' = [editing EXCEPT ![t] = isEdit]
  /\ openDialog' = [openDialog EXCEPT ![t] = TRUE]
  /\ UNCHANGED <<now, rows, user, page, weeklyLimit, submit, checks, loads, views, acctVars, billVars, hookVars>>

\* <Dialog onOpenChange={setOpenDialog}>, the Cancel button: setOpenDialog(false)
closeDialog(t) ==
  /\ page[t] \in Kinds
  /\ openDialog[t]
  /\ submit[t] = "idle"
  /\ openDialog' = [openDialog EXCEPT ![t] = FALSE]
  /\ UNCHANGED <<now, rows, user, page, weeklyLimit, editing, submit, checks, loads, views, acctVars, billVars, hookVars>>

\* handleSubmit up to its await: the quota gate (a refusal raises a toast and
\* changes no state), then the insert or the update is sent.  The submit
\* button is disabled while isSubmitting.
handleSubmit(t) ==
  /\ page[t] \in Kinds
  /\ user.id # "none"
  /\ openDialog[t]
  /\ submit[t] = "idle"
  /\ ~QuotaRefuses(t, editing[t])
  /\ submit' = [submit EXCEPT ![t] = IF editing[t] THEN "update" ELSE "insert"]
  /\ UNCHANGED <<now, rows, user, page, weeklyLimit, openDialog, editing, checks, loads, views, acctVars, billVars, hookVars>>

\* After a successful insert, update or delete: load...(); checkWeekly...Limit();
Refresh(t) ==
  /\ checks' = [checks EXCEPT ![t] = @ \cup {CheckRequest}]
  /\ loads' = [loads EXCEPT ![t] = @ \/ page[t] = "clients"]

\* handleSubmit from the response of the insert or update on.
submitDone(t, ok) ==
  /\ page[t] \in Kinds
  /\ submit[t] # "idle"
  /\ submit' = [submit EXCEPT ![t] = "idle"]
  /\ IF ok
     THEN /\ IF submit[t] = "insert"
             THEN TotalRows < MaxRows /\ rows' = InsertRow(page[t], Me)
             ELSE UNCHANGED rows
          /\ openDialog' = [openDialog EXCEPT ![t] = FALSE]
          /\ Refresh(t)
     ELSE UNCHANGED <<rows, openDialog, checks, loads>>
  /\ UNCHANGED <<now, user, page, weeklyLimit, editing, views, acctVars, billVars, hookVars>>

\* handleDelete(id) of the row created on day d; ok is the delete's success.
handleDelete(t, d, ok) ==
  /\ page[t] \in Kinds
  /\ ~openDialog[t]
  /\ rows[Me][page[t]][d] > 0
  /\ IF ok
     THEN rows' = DeleteRow(page[t], Me, d) /\ Refresh(t)
     ELSE UNCHANGED <<rows, checks, loads>>
  /\ UNCHANGED <<now, user, page, weeklyLimit, openDialog, editing, submit, views, acctVars, billVars, hookVars>>

\* ------------------------------------------------ profiles and Stripe
\* null
Null == <<>>

\* new Date(ms).toISOString()
toISOString(ms) == <<"iso", ms>>

\* new Date(subscription.current_period_end * 1000).toISOString()
PeriodEnd(subscription) == toISOString(subscription.current_period_end * 1000)

\* new Date(subscription.start_date * 1000).toISOString()
StartDate(subscription) == toISOString(subscription.start_date * 1000)

\* The k-th subscription Stripe creates: its timestamps, in seconds.
Subscription(k) == [start_date |-> k, current_period_end |-> k + 1]

\* A profile as the provisioning leaves it (planType DEFAULT 'free',
\* planStartDate DEFAULT CURRENT_TIMESTAMP) and as a check-subscription that
\* found subscription k left it.
FreeProfile ==
  [fullname |-> "a", plantype |-> "free", planstartdate |-> toISOString(0),
   planexpirydate |-> Null]
ProProfile(k) ==
  [fullname |-> "a", plantype |-> "pro", planstartdate |-> StartDate(Subscription(k)),
   planexpirydate |-> PeriodEnd(Subscription(k))]

\* stripe.customers.list({email, limit: 1}).data
customersList == IF ledger.customer THEN <<"cus">> ELSE <<>>

\* stripe.subscriptions.list({customer, status: "active", limit: 1}).data
subscriptionsList == IF ledger.subs = <<>> THEN <<>> ELSE <<Head(ledger.subs)>>

\* ------------------------------------------------- check-subscription
NoData == [subscribed |-> FALSE, planType |-> "none", planExpiryDate |-> Null]
NoneDone == [data |-> NoData, plantype |-> "none", planexpirydate |-> Null]

\* An execution of the handler after its authentication: pc is the call it
\* makes next, customers and subscriptions are what Stripe answered, status
\* and data are the Response.  live says that the hook that invoked it is
\* still mounted.  History: prior is the last snapshot returned before this
\* execution began, fresh says that Stripe has not changed since it began,
\* before is the profile its update met.
NewCall ==
  [pc |-> "customers", customers |-> <<>>, subscriptions |-> <<>>,
   status |-> 0, data |-> NoData, live |-> TRUE,
   prior |-> done, fresh |-> TRUE, before |-> profile, stale |-> FALSE]

\* The update that preserves the profile when Stripe has no customer.
UpdateData_preserve(c) ==
  IF c.customers = <<>>
  THEN << >>
  ELSE IF c.subscriptions # <<>>
  THEN [plantype |-> "pro",
        planstartdate |-> StartDate(c.subscriptions[1]),
        planexpirydate |-> PeriodEnd(c.subscriptions[1])]
  ELSE [plantype |-> "free", planexpirydate |-> Null]

\* The object passed to profiles.update in each of the three branches; the
\* updated_at it also carries is no column of the model's profile.
UpdateData(c) ==
  IF c.customers = <<>>
  THEN [plantype |-> "free", planstartdate |-> Null, planexpirydate |-> Null]
  ELSE IF c.subscriptions # <<>>
  THEN [plantype |-> "pro",
        planstartdate |-> StartDate(c.subscriptions[1]),
        planexpirydate |-> PeriodEnd(c.subscriptions[1])]
  ELSE [plantype |-> "free", planexpirydate |-> Null]

\* .from("profiles").update(data).eq("id", user.id), when the store applies it
ApplyUpdate(p, data) ==
  [f \in DOMAIN p |-> IF f \in DOMAIN data THEN data[f] ELSE p[f]]

\* The JSON of the 200 Response in each of the three branches.
Snapshot(c) ==
  IF c.customers # <<>> /\ c.subscriptions # <<>>
  THEN [subscribed |-> TRUE, planType |-> "pro",
        planExpiryDate |-> PeriodEnd(c.subscriptions[1])]
  ELSE [subscribed |-> FALSE, planType |-> "free", planExpiryDate |-> Null]

Remove(s, i) == SubSeq(s, 1, i - 1) \o SubSeq(s, i + 1, Len(s))

\* return new Response(...): the execution ends; its Response waits for the
\* hook that invoked it, or goes nowhere when that hook is gone.
Respond(t, i, code, json) ==
  calls' = [calls EXCEPT ![t] =
              IF @[i].live
              THEN [@ EXCEPT ![i].pc = "response", ![i].status = code,
                             ![i].data = json, ![i].before = profile]
              ELSE Remove(@, i)]

\* A catch block that resets the plan.
CatchBlock_resetsPlan(t, i) ==
  /\ Respond(t, i, 500, NoData)
  /\ profile' = ApplyUpdate(profile, [plantype |-> "free", planexpirydate |-> Null])
  /\ UNCHANGED done

\* catch (error) { ... return new Response({error}, {status: 500}) }
CatchBlock(t, i) ==
  /\ Respond(t, i, 500, NoData)
  /\ UNCHANGED <<profile, done>>

\* An execution that takes the request for authenticated and goes on to
\* Stripe.
authRefuses_goesOn(t, i) ==
  /\ i \in DOMAIN calls[t]
  /\ calls[t][i].pc = "customers"
  /\ calls' = [calls EXCEPT ![t][i].customers = customersList,
                            ![t][i].pc = IF customersList = <<>>
                                         THEN "update" ELSE "subscriptions"]
  /\ UNCHANGED <<now, rows, user, pageVars, views, acctVars, profile, ledger, status, href,
                 done, hookVars>>

\* The request carries no Authorization header, or auth.getUser(token)
\* answers an error or a user without email: the handler throws before it
\* has called Stripe.
authRefuses(t, i) ==
  /\ i \in DOMAIN calls[t]
  /\ calls[t][i].pc = "customers"
  /\ CatchBlock(t, i)
  /\ UNCHANGED <<now, rows, user, pageVars, views, acctVars, ledger, status, href, hookVars>>

\* await stripe.customers.list(...): ok is the call's success.
checkCustomers(t, i, ok) ==
  /\ i \in DOMAIN calls[t]
  /\ calls[t][i].pc = "customers"
  /\ IF ok
     THEN /\ calls' = [calls EXCEPT ![t][i].customers = customersList,
                                    ![t][i].pc = IF customersList = <<>>
                                                 THEN "update" ELSE "subscriptions"]
          /\ UNCHANGED <<profile, done>>
     ELSE CatchBlock(t, i)
  /\ UNCHANGED <<now, rows, user, pageVars, views, acctVars, ledger, status, href, hookVars>>

\* await stripe.subscriptions.list(...): ok is the call's success.
checkSubscriptions(t, i, ok) ==
  /\ i \in DOMAIN calls[t]
  /\ calls[t][i].pc = "subscriptions"
  /\ IF ok
     THEN /\ calls' = [calls EXCEPT ![t][i].subscriptions = subscriptionsList,
                                    ![t][i].pc = "update"]
          /\ UNCHANGED <<profile, done>>
     ELSE CatchBlock(t, i)
  /\ UNCHANGED <<now, rows, user, pageVars, views, acctVars, ledger, status, href, hookVars>>

\* await supabaseClient.from("profiles").update(...).eq("id", user.id) and the
\* return that follows it: applied says whether the store applied the update.
\* The { error } the call resolves to is not read.
profilesUpdate(t, i, applied) ==
  /\ i \in DOMAIN calls[t]
  /\ calls[t][i].pc = "update"
  /\ profile' = IF applied THEN ApplyUpdate(profile, UpdateData(calls[t][i]))
                ELSE profile
  /\ Respond(t, i, 200, Snapshot(calls[t][i]))
  /\ done' = IF calls[t][i].fresh
             THEN [data |-> Snapshot(calls[t][i]), plantype |-> profile'.plantype,
                   planexpirydate |-> profile'.planexpirydate]
             ELSE NoneDone
  /\ UNCHANGED <<now, rows, user, pageVars, views, acctVars, ledger, status, href, hookVars>>

\* ------------------------------------------------------ useSubscription
\* useState({subscribed: false, planType: 'free', planExpiryDate: null,
\*           isLoading: true, error: null})
InitialStatus ==
  [subscribed |-> FALSE, planType |-> "free", planExpiryDate |-> Null,
   isLoading |-> TRUE, error |-> FALSE]

\* checkSubscription up to its await: setStatus(prev => ({...prev, isLoading:
\* true, error: null})); supabase.functions.invoke('check-subscription')
invokeCheckSubscription(t, st) ==
  /\ status' = [status EXCEPT ![t] = [st EXCEPT !.isLoading = TRUE, !.error = FALSE]]
  /\ calls' = [calls EXCEPT ![t] = Append(@, NewCall)]

\* Dashboard's fetchDashboardData up to the count query: the planType is the
\* one of the render whose effect runs.
DashboardRequest(planType) ==
  [at |-> now, since |-> OneWeekAgo(now), planType |-> planType]

\* const weeklyLimit = planType === 'pro' ? Infinity : 5;
\* const canCreate = planType === 'pro' || count < weeklyLimit;
DashboardQuota(planType, count) ==
  LET limit == IF planType = "pro" THEN Infinity ELSE FreeLimit
  IN  [count |-> count, limit |-> limit,
       canCreate |-> (planType = "pro" \/ count < limit)]

\* const [user, setUser] = useState<User | null>(null)
NoUser == [id |-> "none", planType |-> "free"]

\* setUser({id: session.user.id, ..., planType: profile.plantype || 'free'})
LoadUser(p) == [id |-> Me, planType |-> p.plantype]

\* The polling effect when there is no user: setStatus({subscribed: false,
\* planType: 'free', planExpiryDate: null, isLoading: false, error: null})
SignedOutStatus == [InitialStatus EXCEPT !.isLoading = FALSE]

\* A view with useSubscription mounts.  Dashboard calls the hook itself and
\* mounts whatever the user is; the SubscriptionCard is a child of AppLayout,
\* which renders its children once there is a user.  The polling effect
\* calls checkSubscription at once when there is a user and sets the
\* interval; the checkout-return effect removes the checkout parameter and,
\* for success, sets the timeout; Dashboard's effect fetches its data.  The
\* interval and the timeout keep the user of this first render.
MountHook(t, k) ==
  /\ <<t, k>> \in views
  /\ k \in HookPages
  /\ page[t] = "none"
  /\ href[t] = "app"
  /\ k = "subscription" => user.id # "none"
  /\ user.id # "none" => Len(calls[t]) < MaxCalls[t]
  /\ page' = [page EXCEPT ![t] = k]
  /\ weeklyLimit' = [weeklyLimit EXCEPT ![t] = InitialLimit]
  /\ IF user.id # "none"
     THEN invokeCheckSubscription(t, InitialStatus)
     ELSE /\ status' = [status EXCEPT ![t] = SignedOutStatus]
          /\ UNCHANGED calls
  /\ timer' = [timer EXCEPT ![t] = IF user.id # "none" THEN "armed" ELSE "idle"]
  /\ query' = [query EXCEPT ![t] = ""]
  /\ delayed' = [delayed EXCEPT ![t] =
                   IF query[t] = "success"
                   THEN (IF user.id # "none" THEN "armed" ELSE "idle")
                   ELSE @]
  /\ checks' = [checks EXCEPT ![t] =
                  IF k = "dashboard" /\ user.id # "none"
                  THEN {DashboardRequest(InitialStatus.planType)}
                  ELSE {}]
  /\ UNCHANGED <<now, rows, user, openDialog, editing, submit, loads, views, acctVars,
                 profile, ledger, href, done>>

\* An interval without the test of the user: every tick calls.
poll_unconditional(t) ==
  /\ timer[t] # "off"
  /\ Len(calls[t]) < MaxCalls[t]
  /\ invokeCheckSubscription(t, status[t])
  /\ UNCHANGED <<now, rows, user, pageVars, views, acctVars, profile, ledger, href, done,
                 hookVars>>

\* setInterval(() => { if (user) checkAndUpdateStatus(); }, 30000): a tick of
\* the interval; without a user it does nothing.
poll(t) ==
  /\ timer[t] # "off"
  /\ IF timer[t] = "armed"
     THEN /\ Len(calls[t]) < MaxCalls[t]
          /\ invokeCheckSubscription(t, status[t])
     ELSE UNCHANGED <<status, calls>>
  /\ UNCHANGED <<now, rows, user, pageVars, views, acctVars, profile, ledger, href, done,
                 hookVars>>

\* setTimeout(() => { checkSubscription(); }, 2000) fires: checkSubscription
\* is the one of the hook's first render.  Without a user in that render it
\* sets isLoading to false and returns.  The timeout is not cleared when the
\* hook unmounts.
delayedCheck(t) ==
  /\ delayed[t] # "off"
  /\ delayed' = [delayed EXCEPT ![t] = "off"]
  /\ IF delayed[t] = "armed"
     THEN /\ Len(calls[t]) < MaxCalls[t]
          /\ IF page[t] \in HookPages
             THEN invokeCheckSubscription(t, status[t])
             ELSE /\ calls' = [calls EXCEPT ![t] =
                                 Append(@, [NewCall EXCEPT !.live = FALSE])]
                  /\ UNCHANGED status
     ELSE /\ status' = [status EXCEPT ![t] =
                          IF page[t] \in HookPages
                          THEN [@ EXCEPT !.isLoading = FALSE] ELSE @]
          /\ UNCHANGED calls
  /\ UNCHANGED <<now, rows, user, pageVars, views, acctVars, profile, ledger, href, done,
                 timer, query>>

\* A catch block that falls back to the free status.
FailedStatus_reset(prev) ==
  [InitialStatus EXCEPT !.isLoading = FALSE, !.error = TRUE]

\* The catch block of checkSubscription:
\* setStatus(prev => ({...prev, isLoading: false, error: err.message}))
FailedStatus(prev) == [prev EXCEPT !.isLoading = FALSE, !.error = TRUE]

\* checkSubscription from the response of the invoke on.  A planType that
\* changes runs Dashboard's effect again, whose fetch returns without a user.
checkSubscriptionDone(t, i) ==
  /\ page[t] \in HookPages
  /\ i \in DOMAIN calls[t]
  /\ calls[t][i].pc = "response"
  /\ calls' = [calls EXCEPT ![t] =
                 LET S == Remove(@, i)
                 IN  [j \in DOMAIN S |->
                        IF j < i /\ S[j].live /\ calls[t][i].status = 200
                        THEN [S[j] EXCEPT !.stale = TRUE] ELSE S[j]]]
  /\ LET c == calls[t][i]
         st == IF c.status = 200
               THEN [subscribed |-> c.data.subscribed, planType |-> c.data.planType,
                     planExpiryDate |-> c.data.planExpiryDate,
                     isLoading |-> FALSE, error |-> FALSE]
               ELSE FailedStatus(status[t])
     IN  /\ status' = [status EXCEPT ![t] = st]
         /\ checks' = [checks EXCEPT ![t] =
                         IF page[t] = "dashboard" /\ user.id # "none"
                              /\ st.planType # status[t].planType
                         THEN @ \cup {DashboardRequest(st.planType)} ELSE @]
  /\ UNCHANGED <<now, rows, user, page, weeklyLimit, openDialog, editing, submit,
                 loads, views, acctVars, profile, ledger, href, done, hookVars>>

\* fetchDashboardData from the response of the count query r on.
fetchDashboardData(t, r, ok) ==
  /\ page[t] = "dashboard"
  /\ r \in checks[t]
  /\ checks' = [checks EXCEPT ![t] = @ \ {r}]
  /\ weeklyLimit' =
       IF ok
       THEN [weeklyLimit EXCEPT ![t] =
               DashboardQuota(r.planType, CountSince("transactions", Me, r.since))]
       ELSE weeklyLimit
  /\ UNCHANGED <<now, rows, user, page, openDialog, editing, submit, loads, views, acctVars,
                 billVars, hookVars>>

\* The document of tab t goes away: its state is dropped, the responses it
\* awaits are discarded, the executions under way on the server go on.
Unload(t) ==
  /\ page' = [page EXCEPT ![t] = "none"]
  /\ weeklyLimit' = [weeklyLimit EXCEPT ![t] = InitialLimit]
  /\ openDialog' = [openDialog EXCEPT ![t] = FALSE]
  /\ editing' = [editing EXCEPT ![t] = FALSE]
  /\ checks' = [checks EXCEPT ![t] = {}]
  /\ loads' = [loads EXCEPT ![t] = FALSE]
  /\ status' = [status EXCEPT ![t] = InitialStatus]
  /\ calls' = [calls EXCEPT ![t] =
                 LET S == SelectSeq(@, LAMBDA c : c.pc # "response")
                 IN  [j \in DOMAIN S |-> [S[j] EXCEPT !.live = FALSE, !.stale = FALSE]]]

\* The owner navigates away from the page of tab t: the cleanup of the
\* polling effect clears the interval.
Unmount(t) ==
  /\ page[t] # "none"
  /\ submit[t] = "idle"
  /\ Unload(t)
  /\ timer' = [timer EXCEPT ![t] = "off"]
  /\ UNCHANGED <<now, rows, user, submit, views, acctVars, profile, ledger, href, done,
                 query, delayed>>

\* window.location.href = url: the document and its timers go away.
Redirect(t, url) ==
  /\ Unload(t)
  /\ href' = [href EXCEPT ![t] = url]
  /\ timer' = [timer EXCEPT ![t] = "off"]
  /\ delayed' = [delayed EXCEPT ![t] = "off"]
  /\ UNCHANGED <<now, rows, user, submit, views, acctVars, profile, ledger, done, query>>

\* A checkout that leaves the page whatever create-checkout answered.
createCheckoutSession_alwaysLeaves(t, ok) ==
  /\ page[t] = "subscription"
  /\ Redirect(t, "checkout")

\* createCheckoutSession: ok says that create-checkout answered with a url;
\* window.location.href = data.url.  Otherwise a toast, and nothing changes.
createCheckoutSession(t, ok) ==
  /\ page[t] = "subscription"
  /\ IF ok THEN Redirect(t, "checkout") ELSE UNCHANGED vars

\* openCustomerPortal and the customer-portal function behind it: ok is the
\* success of its Stripe calls.  Without a customer it throws, the hook
\* raises a toast and nothing changes.
openCustomerPortal(t, ok) ==
  /\ page[t] = "subscription"
  /\ IF ok /\ customersList # <<>> THEN Redirect(t, "portal") ELSE UNCHANGED vars

\* --------------------------------------------------------- AuthContext
\* setUser(u): every mounted component renders with the new user and its
\* effects on [user] run again.  Transactions and Clients load and check
\* when there is a user; the polling effect clears its interval, calls
\* checkSubscription or resets the status, and sets the interval again;
\* Dashboard fetches its data when there is a user.
setUser(u) ==
  /\ user' = u
  /\ \A t \in TabIds :
       (page[t] \in HookPages /\ u.id # "none") => Len(calls[t]) < MaxCalls[t]
  /\ calls' = [t \in TabIds |->
                 IF page[t] \in HookPages /\ u.id # "none"
                 THEN Append(calls[t], NewCall) ELSE calls[t]]
  /\ status' = [t \in TabIds |->
                  IF page[t] \notin HookPages THEN status[t]
                  ELSE IF u.id # "none"
                  THEN [status[t] EXCEPT !.isLoading = TRUE, !.error = FALSE]
                  ELSE SignedOutStatus]
  /\ timer' = [t \in TabIds |->
                 IF page[t] \notin HookPages THEN timer[t]
                 ELSE IF u.id # "none" THEN "armed" ELSE "idle"]
  /\ checks' = [t \in TabIds |->
                  IF u.id = "none" THEN checks[t]
                  ELSE IF page[t] \in Kinds
                  THEN checks[t] \cup {[at |-> now, since |-> OneWeekAgo(now),
                                        planType |-> u.planType]}
                  ELSE IF page[t] = "dashboard"
                  THEN checks[t] \cup {DashboardRequest(status[t].planType)}
                  ELSE checks[t]]
  /\ loads' = [t \in TabIds |-> loads[t] \/ (u.id # "none" /\ page[t] = "clients")]
  /\ UNCHANGED <<now, rows, page, weeklyLimit, openDialog, editing, submit, views,
                 ledger, href, done, query, delayed>>

\* getSession(): the session found when the application starts, and its
\* profile.
getSession ==
  /\ user.id = "none"
  /\ setUser(LoadUser(profile))
  /\ auth' = [auth EXCEPT !.loading = FALSE]
  /\ UNCHANGED <<profile, supabase>>

\* The onAuthStateChange listener: with a session the profile is read again,
\* without one the user is null.
onAuthStateChange(hasSession) ==
  /\ setUser(IF hasSession THEN LoadUser(profile) ELSE NoUser)
  /\ auth' = [auth EXCEPT !.loading = FALSE]
  /\ UNCHANGED <<profile, supabase>>

\* The data updateProfile is called with: a Partial<User>, a record of some
\* of its fields.
Names == {"a", "b"}
ProfileEdits ==
  {[fullName |-> n] : n \in Names}
    \cup {[planType |-> p] : p \in Plans}
    \cup {[fullName |-> n, planType |-> p, planStartDate |-> toISOString(1)] :
            n \in Names, p \in Plans}

\* updateProfile builds updateData from the fields of data that are not
\* undefined, under the names of the columns.
Column == [fullName |-> "fullname", planType |-> "plantype",
           planStartDate |-> "planstartdate"]
updateProfileData(data) ==
  LET F == {f \in DOMAIN data : f \in DOMAIN Column}
  IN  [c \in {Column[f] : f \in F} |->
         data[CHOOSE f \in F : Column[f] = c]]

\* updateProfile(data): .from('profiles').update(updateData).eq('id', user.id);
\* ok says that the store applied it, and then setUser({...user, ...data}).
\* Otherwise a toast, and nothing changes.
updateProfile(data, ok) ==
  /\ user.id # "none"
  /\ IF ok
     THEN /\ profile' = ApplyUpdate(profile, updateProfileData(data))
          /\ setUser([id |-> user.id,
                      planType |-> IF "planType" \in DOMAIN data
                                   THEN data.planType ELSE user.planType])
          /\ UNCHANGED acctVars
     ELSE UNCHANGED vars

\* Settings.onSubmit: updateProfile({fullName, phone}) and then the update of
\* fullname, phone and the company fields.
onSubmit(fullName, ok) ==
  /\ \E t \in TabIds : page[t] = "subscription"
  /\ updateProfile([fullName |-> fullName], ok)

\* ------------------------------------------------------------ Stripe
\* Stripe's state changes: the history of the executions forgets what was
\* returned before.
LedgerChanges ==
  /\ done' = NoneDone
  /\ calls' = [u \in TabIds |->
                 [j \in DOMAIN calls[u] |->
                    [calls[u][j] EXCEPT !.fresh = FALSE, !.prior = NoneDone]]]

\* The hosted checkout completes: Stripe holds the customer and the active
\* subscription k; the browser returns to the application.
checkoutCompleted(t, k) ==
  /\ href[t] = "checkout"
  /\ ledger.subs = <<>>
  /\ ledger' = [customer |-> TRUE, subs |-> <<Subscription(k)>>]
  /\ href' = [href EXCEPT ![t] = "app"]
  /\ query' = [query EXCEPT ![t] = "success"]
  /\ user' = NoUser
  /\ LedgerChanges
  /\ UNCHANGED <<now, rows, pageVars, views, acctVars, profile, status, timer, delayed>>

\* The hosted page is left without a change.
returnToApp(t) ==
  /\ href[t] # "app"
  /\ href' = [href EXCEPT ![t] = "app"]
  /\ query' = [query EXCEPT ![t] = IF href[t] = "checkout" THEN "cancelled" ELSE ""]
  /\ user' = NoUser
  /\ UNCHANGED <<now, rows, pageVars, views, acctVars, profile, ledger, calls, status, done,
                 timer, delayed>>

\* The subscription is cancelled in the hosted portal.
portalCancel(t) ==
  /\ href[t] = "portal"
  /\ ledger.subs # <<>>
  /\ ledger' = [ledger EXCEPT !.subs = <<>>]
  /\ href' = [href EXCEPT ![t] = "app"]
  /\ user' = NoUser
  /\ LedgerChanges
  /\ UNCHANGED <<now, rows, pageVars, views, acctVars, profile, status, hookVars>>

\* Stripe registers an active subscription of the customer, whatever the
\* application is doing.
subscriptionCreated(k) ==
  /\ ledger.customer
  /\ ledger.subs = <<>>
  /\ ledger' = [ledger EXCEPT !.subs = <<Subscription(k)>>]
  /\ LedgerChanges
  /\ UNCHANGED <<now, rows, user, pageVars, views, acctVars, profile, status, href, hookVars>>

\* The subscription ends at Stripe, whatever the application is doing.
subscriptionEnded ==
  /\ ledger.subs # <<>>
  /\ ledger' = [ledger EXCEPT !.subs = <<>>]
  /\ LedgerChanges
  /\ UNCHANGED <<now, rows, user, pageVars, views, acctVars, profile, status, href, hookVars>>

\* A day passes.
Tick ==
  /\ now < MaxTime
  /\ now' = now + 1
  /\ UNCHANGED <<rows, user, pageVars, views, acctVars, billVars, hookVars>>

\* The first day of the model: the rows of the days before are the history
\* the owners start with, one day beyond the window, the day of its lower
\* bound and two days inside it.
SeedDays == (StartDay - WindowDays - 1)..(StartDay - WindowDays + 2)

History(k0, S) ==
  [o \in Owners |-> [k \in Kinds |-> [d \in Times |->
     IF o = Me THEN (IF k = k0 /\ d \in S THEN 1 ELSE 0)
     ELSE (IF d = StartDay - 1 THEN 1 ELSE 0)]]]

\* ------------------------------------------------- AuthContext: accounts
\* The e-mail addresses, passwords and names the forms are filled with.
Emails == {"me@x", "new@x"}
Passwords == {"p", "q"}

\* The id auth.users gives to the identity of an e-mail address.
UserId(email) == IF email = "me@x" THEN Me ELSE "o3"

\* AuthContext between two calls: nothing under way.
IdleAuth ==
  [pc |-> "idle", loading |-> FALSE, uid |-> "none", email |-> "",
   password |-> "", fullName |-> "", trace |-> <<>>, toasts |-> {},
   thrown |-> FALSE, location |-> ""]

\* One entry of auth.trace: a call the procedure under way has made, with
\* the arguments it passed.
Effect(op, email, password, fullName) ==
  [op |-> op, email |-> email, password |-> password, fullName |-> fullName]

\* The owner of the run is registered and has its profile row.
InitAccount ==
  /\ auth = IdleAuth
  /\ supabase = [session |-> user.id # "none",
                 users |-> {[id |-> Me, email |-> "me@x"]},
                 profiles |-> {[id |-> Me, plantype |-> "free", fullname |-> "a"]}]

\* The frame of the steps of signUp and signIn.
AccountFrame ==
  UNCHANGED <<now, rows, user, pageVars, views, billVars, hookVars>>

\* catch (error) { toast({title, variant: 'destructive'}); throw error; }
\* finally { setLoading(false); }
Rethrown(title) ==
  [auth EXCEPT !.pc = "idle", !.toasts = @ \cup {title}, !.thrown = TRUE,
               !.loading = FALSE]

\* toast({title}); window.location.href = '/dashboard'; and the finally block.
Welcomed(title) ==
  [auth EXCEPT !.pc = "idle", !.toasts = @ \cup {title},
               !.location = "/dashboard", !.loading = FALSE]

\* signIn up to its first await: setLoading(true); cleanupAuthState();
signIn(email, password) ==
  /\ auth.pc = "idle"
  /\ auth' = [IdleAuth EXCEPT !.pc = "signIn:signOut", !.loading = TRUE,
                              !.email = email, !.password = password,
                              !.trace = <<Effect("cleanupAuthState", "", "", "")>>]
  /\ supabase' = [supabase EXCEPT !.session = FALSE]
  /\ AccountFrame

\* signUp up to its first await: setLoading(true); cleanupAuthState();
signUp(email, password, fullName) ==
  /\ auth.pc = "idle"
  /\ auth' = [IdleAuth EXCEPT !.pc = "signUp:signOut", !.loading = TRUE,
                              !.email = email, !.password = password,
                              !.fullName = fullName,
                              !.trace = <<Effect("cleanupAuthState", "", "", "")>>]
  /\ supabase' = [supabase EXCEPT !.session = FALSE]
  /\ AccountFrame

\* A sign-in that gives up when the global sign-out fails.
authSignOut_stops(ok) ==
  /\ auth.pc \in {"signIn:signOut", "signUp:signOut"}
  /\ auth' = IF ok
             THEN [auth EXCEPT !.pc = IF @ = "signIn:signOut"
                                      THEN "signIn:password" ELSE "signUp:signUp",
                               !.trace = Append(@, Effect("signOut", "", "", ""))]
             ELSE [Rethrown("Erro ao fazer login") EXCEPT
                     !.trace = Append(@, Effect("signOut", "", "", ""))]
  /\ UNCHANGED supabase
  /\ AccountFrame

\* try { await supabase.auth.signOut({scope: 'global'}) } catch (err) {}:
\* ok is the call's success; signIn and signUp go on either way.
authSignOut(ok) ==
  /\ auth.pc \in {"signIn:signOut", "signUp:signOut"}
  /\ auth' = [auth EXCEPT !.pc = IF @ = "signIn:signOut"
                                 THEN "signIn:password" ELSE "signUp:signUp",
                          !.trace = Append(@, Effect("signOut", "", "", ""))]
  /\ UNCHANGED supabase
  /\ AccountFrame

\* signIn from the response of supabase.auth.signInWithPassword({email,
\* password}) on: ok is the provider's answer, which knows the identities.
signInWithPassword(ok) ==
  /\ auth.pc = "signIn:password"
  /\ ok => \E u \in supabase.users : u.email = auth.email
  /\ LET sent == [auth EXCEPT !.trace =
                    Append(@, Effect("signInWithPassword", auth.email,
                                     auth.password, ""))]
     IN  auth' = IF ok
                 THEN [Welcomed("Login realizado com sucesso") EXCEPT
                         !.trace = sent.trace]
                 ELSE [Rethrown("Erro ao fazer login") EXCEPT
                         !.trace = sent.trace]
  /\ supabase' = [supabase EXCEPT !.session = ok]
  /\ AccountFrame

\* INSERT INTO public.profiles through the table's primary key: a second
\* row of the same id is refused.
InsertProfile(profiles, row) ==
  IF \E r \in profiles : r.id = row.id
  THEN [error |-> TRUE, profiles |-> profiles]
  ELSE [error |-> FALSE, profiles |-> profiles \cup {row}]

\* The trigger on_auth_user_created: handle_new_user inserts (new.id,
\* new.email, 'free') for the row inserted into auth.users.
handle_new_user(profiles, new) ==
  InsertProfile(profiles, [id |-> new.id, plantype |-> "free", fullname |-> ""]).profiles

\* signUp from the response of supabase.auth.signUp({email, password,
\* options: {data: {full_name}}}) on: an address that is registered is
\* refused, ok is the provider's answer otherwise; the new row of auth.users
\* fires the trigger.
authSignUp(ok) ==
  /\ auth.pc = "signUp:signUp"
  /\ LET new == [id |-> UserId(auth.email), email |-> auth.email]
         created == ok /\ new \notin supabase.users
         trace == Append(auth.trace, Effect("signUp", auth.email, auth.password,
                                            auth.fullName))
     IN  /\ auth' = IF created
                    THEN [auth EXCEPT !.pc = "signUp:insert", !.trace = trace,
                                      !.uid = new.id]
                    ELSE [Rethrown("Erro ao criar conta") EXCEPT !.trace = trace]
         /\ supabase' = IF created
                        THEN [supabase EXCEPT
                                !.users = @ \cup {new},
                                !.profiles = handle_new_user(@, new),
                                !.session = TRUE]
                        ELSE supabase
  /\ AccountFrame

\* signUp from the response of supabase.from('profiles').insert({id, email,
\* fullname, plantype: 'free', planstartdate}) on: ok is the store's
\* readiness to answer, the primary key decides the rest.
profilesInsert(ok) ==
  /\ auth.pc = "signUp:insert"
  /\ LET res == InsertProfile(supabase.profiles,
                              [id |-> auth.uid, plantype |-> "free",
                               fullname |-> auth.fullName])
         trace == Append(auth.trace, Effect("profiles.insert", auth.email, "",
                                            auth.fullName))
     IN  IF ok /\ ~res.error
         THEN /\ supabase' = [supabase EXCEPT !.profiles = res.profiles]
              /\ auth' = [Welcomed("Conta criada com sucesso") EXCEPT !.trace = trace]
         ELSE /\ UNCHANGED supabase
              /\ auth' = [Rethrown("Erro ao criar conta") EXCEPT !.trace = trace]
  /\ AccountFrame

\* The tables deleteAccount deletes from, in its order, and the step after
\* each.
DeleteSteps ==
  [transactions |-> "clients", clients |-> "login_history",
   login_history |-> "profiles", profiles |-> "deleteUser"]

\* deleteAccount up to its first await: without a user it throws into its
\* catch block, which raises a toast.
deleteAccount ==
  /\ auth.pc = "idle"
  /\ auth' = IF user.id = "none"
             THEN [IdleAuth EXCEPT !.toasts = {"Erro ao excluir conta"}]
             ELSE [IdleAuth EXCEPT !.pc = "transactions", !.loading = TRUE,
                                   !.uid = user.id]
  /\ UNCHANGED supabase
  /\ AccountFrame

\* All rows of owner uid are gone from table k.
DeleteRows(k, uid) == [rows EXCEPT ![uid][k] = [d \in Times |-> 0]]

\* deleteAccount from the response of one of its four deletes on: ok is the
\* delete's success, and an error is logged and nothing more.
deleteFrom(ok) ==
  /\ auth.pc \in DOMAIN DeleteSteps
  /\ auth' = [auth EXCEPT !.pc = DeleteSteps[@],
                          !.trace = Append(@, Effect(auth.pc, "", "", ""))]
  /\ rows' = IF ok /\ auth.pc \in Kinds THEN DeleteRows(auth.pc, auth.uid) ELSE rows
  /\ supabase' = IF ok /\ auth.pc = "profiles"
                 THEN [supabase EXCEPT !.profiles = {r \in @ : r.id # auth.uid}]
                 ELSE supabase
  /\ UNCHANGED <<now, user, pageVars, views, billVars, hookVars>>

\* deleteAccount from the response of supabase.auth.admin.deleteUser on: ok
\* is its success, and then the row of auth.users goes, and with it the
\* rows that reference it ON DELETE CASCADE; the toast 'Conta excluída'
\* follows.  Otherwise updateUser({data: {deleted: true}}) is sent.
adminDeleteUser(ok) ==
  /\ auth.pc = "deleteUser"
  /\ auth' = IF ok
             THEN [auth EXCEPT !.pc = "signOut", !.toasts = @ \cup {"Conta excluída"},
                               !.trace = Append(@, Effect("admin.deleteUser", "", "", ""))]
             ELSE [auth EXCEPT !.pc = "updateUser",
                               !.trace = Append(@, Effect("admin.deleteUser", "", "", ""))]
  /\ rows' = IF ok THEN [rows EXCEPT ![auth.uid] =
                           [k \in Kinds |-> [d \in Times |-> 0]]]
             ELSE rows
  /\ supabase' = IF ok
                 THEN [supabase EXCEPT !.users = {u \in @ : u.id # auth.uid},
                                       !.profiles = {r \in @ : r.id # auth.uid},
                                       !.session = FALSE]
                 ELSE supabase
  /\ UNCHANGED <<now, user, pageVars, views, billVars, hookVars>>

\* deleteAccount from the response of updateUser on: ok is its success, and
\* the toast 'Conta excluída' and cleanupAuthState() follow.  Otherwise the
\* toast 'Erro ao excluir conta' and signOut().
updateUser(ok) ==
  /\ auth.pc = "updateUser"
  /\ auth' = IF ok
             THEN [auth EXCEPT !.pc = "signOut", !.toasts = @ \cup {"Conta excluída"},
                               !.trace = Append(@, Effect("updateUser", "", "", ""))]
             ELSE [auth EXCEPT !.pc = "signOut",
                               !.toasts = @ \cup {"Erro ao excluir conta"},
                               !.trace = Append(@, Effect("updateUser", "", "", ""))]
  /\ supabase' = [supabase EXCEPT !.session = FALSE]
  /\ AccountFrame

\* deleteAccount from the response of supabase.auth.signOut() on, be it
\* its own call after 'Conta excluída' or the one of signOut(): ok is its
\* success, and setUser(null) and window.location.href = '/login' follow;
\* otherwise the toast of the catch block.  setLoading(false) in both cases.
deleteAccountSignOut(ok) ==
  /\ auth.pc = "signOut"
  /\ LET own == "Conta excluída" \in auth.toasts
     IN  auth' = IF ok
                 THEN [auth EXCEPT !.pc = "idle", !.loading = FALSE,
                                   !.location = "/login",
                                   !.toasts = IF own THEN @
                                              ELSE @ \cup {"Logout realizado com sucesso"},
                                   !.trace = Append(@, Effect("signOut", "", "", ""))]
                 ELSE [auth EXCEPT !.pc = "idle", !.loading = FALSE,
                                   !.toasts = @ \cup {IF own THEN "Erro ao excluir conta"
                                                      ELSE "Erro ao fazer logout"},
                                   !.trace = Append(@, Effect("signOut", "", "", ""))]
  /\ UNCHANGED <<profile, supabase>>
  /\ IF ok THEN setUser(NoUser) ELSE UNCHANGED <<now, rows, user, pageVars, views, ledger, calls, status, href, done, hookVars>>

InitPages ==
  /\ page = [t \in TabIds |-> "none"]
  /\ weeklyLimit = [t \in TabIds |-> InitialLimit]
  /\ openDialog = [t \in TabIds |-> FALSE]
  /\ editing = [t \in TabIds |-> FALSE]
  /\ submit = [t \in TabIds |-> "idle"]
  /\ checks = [t \in TabIds |-> {}]
  /\ loads = [t \in TabIds |-> FALSE]

InitHooks ==
  /\ status = [t \in TabIds |-> InitialStatus]
  /\ calls = [t \in TabIds |-> <<>>]
  /\ href = [t \in TabIds |-> "app"]
  /\ done = NoneDone
  /\ timer = [t \in TabIds |-> "off"]
  /\ query = [t \in TabIds |-> ""]
  /\ delayed = [t \in TabIds |-> "off"]

Requests == {[at |-> d, since |-> OneWeekAgo(d), planType |-> p] : d \in Times, p \in Plans}

\* ---------------------------------------------------------------------
\* SpecQuota: one tab on one of the two pages, on one day.
InitQuota ==
  /\ now = StartDay
  /\ rows \in {History(k0, S) : k0 \in Kinds, S \in SUBSET SeedDays}
  /\ profile \in {FreeProfile, ProProfile(1)}
  /\ ledger = IF profile.plantype = "pro"
              THEN [customer |-> TRUE, subs |-> <<Subscription(1)>>]
              ELSE [customer |-> FALSE, subs |-> <<>>]
  /\ user = LoadUser(profile)
  /\ views \in {{<<"t1", k>>} : k \in Kinds}
  /\ InitPages
  /\ InitHooks
  /\ InitAccount

NextQuota ==
  \/ \E t \in TabIds, k \in Kinds : Mount(t, k)
  \/ \E t \in TabIds : Unmount(t)
  \/ \E t \in TabIds, r \in Requests, ok \in BOOLEAN : checkWeeklyLimit(t, r, ok)
  \/ \E t \in TabIds : loadClients(t)
  \/ \E t \in TabIds, isEdit \in BOOLEAN : handleOpenDialog(t, isEdit)
  \/ \E t \in TabIds : closeDialog(t)
  \/ \E t \in TabIds : handleSubmit(t)
  \/ \E t \in TabIds, ok \in BOOLEAN : submitDone(t, ok)
  \/ \E t \in TabIds, d \in Times, ok \in BOOLEAN : handleDelete(t, d, ok)

SpecQuota == InitQuota /\ [][NextQuota]_vars

\* ---------------------------------------------------------------------
\* SpecWindow: the days pass under the quota check of one page.
InitWindow == InitQuota

NextWindow ==
  \/ Tick
  \/ \E t \in TabIds, k \in Kinds : Mount(t, k)
  \/ \E t \in TabIds : Unmount(t)
  \/ \E t \in TabIds, r \in Requests, ok \in BOOLEAN : checkWeeklyLimit(t, r, ok)
  \/ \E t \in TabIds : loadClients(t)
  \/ \E t \in TabIds, d \in Times, ok \in BOOLEAN : handleDelete(t, d, ok)

SpecWindow == InitWindow /\ [][NextWindow]_vars

\* ---------------------------------------------------------------------
\* SpecRace: a free owner with four rows of a table inside the window has
\* the page of that table open in two tabs.
AlmostFull(k0) ==
  [o \in Owners |-> [k \in Kinds |-> [d \in Times |->
     IF o = Me /\ k = k0 /\ d = StartDay - 1 THEN FreeLimit - 1 ELSE 0]]]

InitRace ==
  /\ now = StartDay
  /\ \E k \in Kinds :
       /\ rows = AlmostFull(k)
       /\ views = {<<t, k>> : t \in TabIds}
  /\ profile = FreeProfile
  /\ ledger = [customer |-> FALSE, subs |-> <<>>]
  /\ user = LoadUser(profile)
  /\ InitPages
  /\ InitHooks
  /\ InitAccount

NextRace ==
  \/ \E t \in TabIds, k \in Kinds : Mount(t, k)
  \/ \E t \in TabIds, r \in Requests, ok \in BOOLEAN : checkWeeklyLimit(t, r, ok)
  \/ \E t \in TabIds : loadClients(t)
  \/ \E t \in TabIds, isEdit \in BOOLEAN : handleOpenDialog(t, isEdit)
  \/ \E t \in TabIds : handleSubmit(t)
  \/ \E t \in TabIds, ok \in BOOLEAN : submitDone(t, ok)

SpecRace == InitRace /\ [][NextRace]_vars

\* ---------------------------------------------------------------------
\* SpecKinds: a free or pro owner with five clients inside the window and no
\* transaction goes back and forth between the Transactions page and the
\* Clients page.
FiveClients ==
  [o \in Owners |-> [k \in Kinds |-> [d \in Times |->
     IF o = Me /\ k = "clients" /\ d = StartDay - 1 THEN FreeLimit ELSE 0]]]

InitKinds ==
  /\ now = StartDay
  /\ rows = FiveClients
  /\ views = {<<"t1", "transactions">>, <<"t1", "clients">>}
  /\ profile \in {FreeProfile, ProProfile(1)}
  /\ ledger = IF profile.plantype = "pro"
              THEN [customer |-> TRUE, subs |-> <<Subscription(1)>>]
              ELSE [customer |-> FALSE, subs |-> <<>>]
  /\ user = LoadUser(profile)
  /\ InitPages
  /\ InitHooks
  /\ InitAccount

SpecKinds == InitKinds /\ [][NextQuota]_vars

\* ---------------------------------------------------------------------
\* SpecBilling: one tab on a view with useSubscription, Stripe and the
\* profile; the owner holds five transactions created the day before.
FullWeek ==
  [o \in Owners |-> [k \in Kinds |-> [d \in Times |->
     IF o = Me /\ k = "transactions" /\ d = StartDay - 1 THEN FreeLimit ELSE 0]]]

InitBilling ==
  /\ now = StartDay
  /\ rows = FullWeek
  /\ profile \in {FreeProfile} \cup {ProProfile(k) : k \in 1..MaxSubs}
  /\ ledger \in {[customer |-> FALSE, subs |-> <<>>],
                 [customer |-> TRUE, subs |-> <<>>],
                 [customer |-> TRUE, subs |-> <<Subscription(1)>>]}
  /\ user = LoadUser(profile)
  /\ views \in {{<<"t1", k>>} : k \in HookPages}
  /\ InitPages
  /\ InitHooks
  /\ InitAccount

NextBilling ==
  \/ \E t \in TabIds, k \in HookPages : MountHook(t, k)
  \/ \E t \in TabIds : Unmount(t)
  \/ \E t \in TabIds : poll(t)
  \/ \E t \in TabIds, i \in Slots, ok \in BOOLEAN : checkCustomers(t, i, ok)
  \/ \E t \in TabIds, i \in Slots, ok \in BOOLEAN : checkSubscriptions(t, i, ok)
  \/ \E t \in TabIds, i \in Slots, applied \in BOOLEAN : profilesUpdate(t, i, applied)
  \/ \E t \in TabIds, i \in Slots : checkSubscriptionDone(t, i)
  \/ \E t \in TabIds, r \in Requests, ok \in BOOLEAN : fetchDashboardData(t, r, ok)
  \/ \E t \in TabIds, ok \in BOOLEAN : createCheckoutSession(t, ok)
  \/ \E t \in TabIds, ok \in BOOLEAN : openCustomerPortal(t, ok)
  \/ \E t \in TabIds, k \in 1..MaxSubs : checkoutCompleted(t, k)
  \/ \E t \in TabIds : returnToApp(t)
  \/ \E t \in TabIds : portalCancel(t)
  \/ \E t \in TabIds : delayedCheck(t)
  \/ getSession

SpecBilling == InitBilling /\ [][NextBilling]_vars
\* ---------------------------------------------------------------------
\* The rows of table k the signed-in owner holds, one element a row.
RowSet(k) == {<<d, i>> \in Times \X (1..(MaxRows + 3)) : i <= rows[Me][k][d]}

\* The rows created less than WindowDays days before day, and those created
\* at most WindowDays days before it.
Inside(k, day) == Cardinality({x \in RowSet(k) : day - x[1] < WindowDays})
NotOlder(k, day) == Cardinality({x \in RowSet(k) : day - x[1] <= WindowDays})

\* C1: for a free owner a quota check that returns stores limit 5, as count
\* the number of the owner's rows of the page's table created within the 7
\* days before the check, and canCreate exactly when that count is below 5.
C1_FreeQuotaCheck ==
  [][\A t \in TabIds, r \in Requests :
       (r.planType = "free" /\ checkWeeklyLimit(t, r, TRUE)) =>
         LET n == NotOlder(page[t], r.at)
         IN  weeklyLimit'[t] = [count |-> n, limit |-> 5, canCreate |-> (n < 5)]]_vars

\* C1 witness: one row older than the window and five created inside it, the
\* check answered 5 of 5 and denied.
C1_Witness ==
  \E t \in TabIds :
    /\ page[t] \in Kinds
    /\ user.planType = "free"
    /\ rows[Me][page[t]][StartDay - WindowDays - 1] = 1
    /\ rows[Me][page[t]][now] = 5
    /\ weeklyLimit[t] = [count |-> 5, limit |-> 5, canCreate |-> FALSE]
    /\ checks[t] = {}

\* C3: a row created more than 7 days before the check is not counted and a
\* row created less than 7 days before it is counted, whatever the day.
C3_SlidingWindow ==
  [][\A t \in TabIds, r \in Requests :
       checkWeeklyLimit(t, r, TRUE) =>
         /\ weeklyLimit'[t].count >= Inside(page[t], r.at)
         /\ weeklyLimit'[t].count <= NotOlder(page[t], r.at)]_vars

\* C3 witness: a day after the start, a check answered 1: the row of 6 days
\* is counted and the rows of 8 and 9 days are left out.
C3_Witness ==
  \E t \in TabIds :
    /\ page[t] \in Kinds
    /\ now = StartDay + 1
    /\ rows[Me][page[t]][now - WindowDays - 2] = 1
    /\ rows[Me][page[t]][now - WindowDays - 1] = 1
    /\ rows[Me][page[t]][now - WindowDays] = 0
    /\ rows[Me][page[t]][now - WindowDays + 1] = 1
    /\ CountSince(page[t], Me, 0) = 3
    /\ weeklyLimit[t].count = 1
    /\ checks[t] = {}
    /\ ~loads[t]

\* C4 as stated: a row created exactly 7 days before the check is left out
\* of the count.
C4_BoundaryExcluded ==
  [][\A t \in TabIds, r \in Requests :
       checkWeeklyLimit(t, r, TRUE) =>
         weeklyLimit'[t].count = Inside(page[t], r.at)]_vars

\* C4 amended: a row created exactly 7 days before the check is counted: the
\* count is that of the rows created at most 7 days before the check.
C4_BoundaryIncluded ==
  [][\A t \in TabIds, r \in Requests :
       checkWeeklyLimit(t, r, TRUE) =>
         weeklyLimit'[t].count = NotOlder(page[t], r.at)]_vars

\* C4 witness: the only row inside the window is exactly 7 days old and the
\* check answered 1.
C4_Witness ==
  \E t \in TabIds :
    /\ page[t] \in Kinds
    /\ rows[Me][page[t]][now - WindowDays] = 1
    /\ Inside(page[t], now) = 0
    /\ weeklyLimit[t].count = 1
    /\ checks[t] = {}
    /\ ~loads[t]

\* C5 as stated: while a free owner holds 5 rows of a table inside the
\* window, no step inserts a row into that table.
C5_NoInsertAtLimit ==
  [][\A k \in Kinds :
       (user.planType = "free" /\ NotOlder(k, now) = 5) =>
         NotOlder(k, now)' <= 5]_vars

\* C2 as stated: for an owner whose profile and session hold tier pro every
\* answered quota check, of the Transactions and Clients pages and of the
\* Dashboard, allows creation, and no page refuses the owner's creation.
C2_ProAlwaysAllowed ==
  /\ [][\A t \in TabIds, r \in Requests :
          (/\ profile.plantype = "pro"
           /\ user.planType = "pro"
           /\ (checkWeeklyLimit(t, r, TRUE) \/ fetchDashboardData(t, r, TRUE)))
          => weeklyLimit'[t].canCreate]_vars
  /\ [](\A t \in TabIds :
          (profile.plantype = "pro" /\ user.planType = "pro" /\ page[t] \in Kinds)
          => ~QuotaRefuses(t, FALSE))

\* C6 as stated: a check-subscription that begins after another one returned
\* its snapshot, with Stripe unchanged since, returns the same snapshot and
\* leaves the profile's tier and expiry as that one left them.
C6_Idempotent ==
  [][\A t \in TabIds, i \in Slots, applied \in BOOLEAN :
       (profilesUpdate(t, i, applied) /\ calls[t][i].prior # NoneDone) =>
         /\ Snapshot(calls[t][i]) = calls[t][i].prior.data
         /\ profile'.plantype = calls[t][i].prior.plantype
         /\ profile'.planexpirydate = calls[t][i].prior.planexpirydate]_vars

\* C7: when stripe.customers.list or stripe.subscriptions.list fails, the
\* execution answers with status 500 and no snapshot, and the profile is
\* left as it was.
C7_LedgerFailureNoWrite ==
  [][\A t \in TabIds : \A i \in DOMAIN calls[t] :
       (checkCustomers(t, i, FALSE) \/ checkSubscriptions(t, i, FALSE)) =>
         /\ profile' = profile
         /\ calls[t][i].live =>
              /\ calls'[t][i].pc = "response"
              /\ calls'[t][i].status = 500
              /\ calls'[t][i].data = NoData]_vars

\* C7 witness: the listing of the subscriptions failed under a pro profile:
\* the response is the error and the profile is still pro.
C7_Witness ==
  \E t \in TabIds :
    /\ calls[t] # <<>>
    /\ calls[t][1].pc = "response"
    /\ calls[t][1].status = 500
    /\ calls[t][1].customers # <<>>
    /\ calls[t][1].before.plantype = "pro"
    /\ profile.plantype = "pro"

\* C8 as stated: a check-subscription that meets a free profile and finds an
\* active subscription leaves the profile pro with the subscription's period
\* end as expiry, and returns that as its snapshot.
C8_RoundTrip ==
  [][\A t \in TabIds, i \in Slots, applied \in BOOLEAN :
       (/\ profilesUpdate(t, i, applied)
        /\ profile.plantype = "free"
        /\ calls[t][i].subscriptions # <<>>) =>
         LET end == toISOString(calls[t][i].subscriptions[1].current_period_end * 1000)
         IN  /\ profile'.plantype = "pro"
             /\ profile'.planexpirydate = end
             /\ Snapshot(calls[t][i]) =
                  [subscribed |-> TRUE, planType |-> "pro", planExpiryDate |-> end]]_vars

\* C9 as stated: a check-subscription that finds no customer, or a customer
\* without an active subscription, returns the free snapshot and leaves the
\* profile free with no expiry.
C9_NoSubscriptionSetsFree ==
  [][\A t \in TabIds, i \in Slots, applied \in BOOLEAN :
       (/\ profilesUpdate(t, i, applied)
        /\ (calls[t][i].customers = <<>> \/ calls[t][i].subscriptions = <<>>)) =>
         /\ Snapshot(calls[t][i]) =
              [subscribed |-> FALSE, planType |-> "free", planExpiryDate |-> Null]
         /\ profile'.plantype = "free"
         /\ profile'.planexpirydate = Null]_vars

\* C10 as stated: a check-subscription that finds no customer leaves the
\* profile's tier and expiry as they were and answers with an error.
C10_NoCustomerPreserves ==
  [][\A t \in TabIds : \A i \in DOMAIN calls[t], applied \in BOOLEAN :
       (profilesUpdate(t, i, applied) /\ calls[t][i].customers = <<>>) =>
         /\ profile'.plantype = profile.plantype
         /\ profile'.planexpirydate = profile.planexpirydate
         /\ calls[t][i].live => calls'[t][i].status # 200]_vars

\* C10 amended: a check-subscription that finds no customer sends the update
\* that sets the profile to free with no start and no expiry, which the
\* store applies or rejects, and answers with status 200 and the free
\* snapshot, not with an error.
C10_NoCustomerResets ==
  [][\A t \in TabIds : \A i \in DOMAIN calls[t], applied \in BOOLEAN :
       (profilesUpdate(t, i, applied) /\ calls[t][i].customers = <<>>) =>
         /\ profile' = IF applied
                       THEN [profile EXCEPT !.plantype = "free",
                                            !.planstartdate = Null,
                                            !.planexpirydate = Null]
                       ELSE profile
         /\ calls[t][i].live =>
              /\ calls'[t][i].status = 200
              /\ calls'[t][i].data =
                   [subscribed |-> FALSE, planType |-> "free",
                    planExpiryDate |-> Null]]_vars

\* C10 witness: Stripe has no customer, the update met a pro profile, the
\* response is the free snapshot with status 200 and the profile is free.
C10_Witness ==
  \E t \in TabIds :
    /\ calls[t] # <<>>
    /\ calls[t][1].pc = "response"
    /\ calls[t][1].status = 200
    /\ calls[t][1].customers = <<>>
    /\ calls[t][1].before.plantype = "pro"
    /\ profile = [FreeProfile EXCEPT !.planstartdate = Null]

\* C11 as stated: a quota check whose count query fails never leaves a free
\* owner's page with canCreate true while 5 or more of the owner's rows of
\* the page's table are inside the window.
C11_FailsClosed ==
  [][\A t \in TabIds, r \in Requests :
       (user.planType = "free" /\ checkWeeklyLimit(t, r, FALSE)) =>
         ~(weeklyLimit'[t].canCreate /\ NotOlder(page[t], now) >= 5)]_vars

\* C12: the store applies every insert it receives, whatever the number of
\* the owner's rows inside the window at that moment: the check and the
\* insert are two operations.
C12_InsertNotChecked ==
  [][\A t \in TabIds :
       (submitDone(t, TRUE) /\ submit[t] = "insert") =>
         NotOlder(page[t], now)' = NotOlder(page[t], now) + 1]_vars

\* C12 witness: both tabs of a free owner hold the snapshot 4 of 5, both have
\* passed the gate of handleSubmit and both inserts are under way with four
\* rows inside the window.
C12_Witness ==
  \E k \in Kinds :
    /\ user.planType = "free"
    /\ NotOlder(k, now) = 4
    /\ \A t \in TabIds :
         /\ page[t] = k
         /\ weeklyLimit[t] = [count |-> 4, limit |-> 5, canCreate |-> TRUE]
         /\ submit[t] = "insert"

\* C13 as stated: once a page has a snapshot from an answered check, every
\* can-create decision it makes (the dialog opened for a new row, a new row
\* submitted) uses a snapshot taken after the page's last insert or delete:
\* its count is the number of rows inside the window at the decision.
C13_DecisionAfterRecheck ==
  [][\A t \in TabIds :
       (/\ weeklyLimit[t] # InitialLimit
        /\ (handleOpenDialog(t, FALSE) \/ (~editing[t] /\ handleSubmit(t)))) =>
         weeklyLimit[t].count = NotOlder(page[t], now)]_vars

\* The table of the other kind.
OtherKind(k) == IF k = "transactions" THEN "clients" ELSE "transactions"

\* C14: an insert, update or delete made on the page of one table leaves
\* the rows of the other table as they are, and a quota check of a page
\* counts the rows of its own table only and allows on that count alone.
C14_IndependentCounters ==
  [][\A t \in TabIds :
       /\ ((\E ok \in BOOLEAN : submitDone(t, ok))
            \/ (\E d \in Times, ok \in BOOLEAN : handleDelete(t, d, ok)))
          => rows'[Me][OtherKind(page[t])] = rows[Me][OtherKind(page[t])]
       /\ \A r \in Requests :
            checkWeeklyLimit(t, r, TRUE) =>
              /\ weeklyLimit'[t].count = NotOlder(page[t], r.at)
              /\ weeklyLimit'[t].canCreate =
                   (r.planType = "pro" \/ NotOlder(page[t], r.at) < 5)]_vars

\* C14 witness: a free owner with five clients inside the window and no
\* transaction has created a transaction, and the Transactions page answers
\* 1 of 5 with the five clients still inside the window.
C14_Witness ==
  /\ user.planType = "free"
  /\ NotOlder("clients", now) = 5
  /\ page["t1"] = "transactions"
  /\ rows[Me]["transactions"][now] = 1
  /\ weeklyLimit["t1"] = [count |-> 1, limit |-> 5, canCreate |-> TRUE]

\* C15 as stated: right after the write step of a check-subscription that
\* returns status 200, the profile's tier and expiry are the planType and
\* the planExpiryDate of the snapshot it returns, also when the store
\* rejected the update.
C15_SnapshotPersisted ==
  [][\A t \in TabIds, i \in Slots, applied \in BOOLEAN :
       profilesUpdate(t, i, applied) =>
         /\ profile'.plantype = Snapshot(calls[t][i]).planType
         /\ profile'.planexpirydate = Snapshot(calls[t][i]).planExpiryDate]_vars


\* ---------------------------------------------------------------------
\* SpecSession: one tab with a view that uses useSubscription, and the
\* session coming and going.
InitSession ==
  /\ now = StartDay
  /\ rows = FullWeek
  /\ profile = FreeProfile
  /\ ledger \in {[customer |-> FALSE, subs |-> <<>>],
                 [customer |-> TRUE, subs |-> <<Subscription(1)>>]}
  /\ user \in {NoUser, LoadUser(profile)}
  /\ views \in {{<<"t1", k>>} : k \in HookPages}
  /\ InitPages
  /\ InitHooks
  /\ InitAccount

CallStep ==
  \/ \E t \in TabIds, i \in Slots, ok \in BOOLEAN : checkCustomers(t, i, ok)
  \/ \E t \in TabIds, i \in Slots, ok \in BOOLEAN : checkSubscriptions(t, i, ok)
  \/ \E t \in TabIds, i \in Slots, applied \in BOOLEAN : profilesUpdate(t, i, applied)
  \/ \E t \in TabIds, i \in Slots : checkSubscriptionDone(t, i)
  \/ \E t \in TabIds, i \in Slots : authRefuses(t, i)

NextSession ==
  \/ \E t \in TabIds, k \in HookPages : MountHook(t, k)
  \/ \E t \in TabIds : Unmount(t)
  \/ \E t \in TabIds : poll(t)
  \/ getSession
  \/ \E hasSession \in BOOLEAN : onAuthStateChange(hasSession)
  \/ \E t \in TabIds, r \in Requests, ok \in BOOLEAN : fetchDashboardData(t, r, ok)
  \/ CallStep

SpecSession == InitSession /\ [][NextSession]_vars

\* The interval fires every 30 seconds for as long as it is set, and the
\* function and the promise of the invoke come to an end.
FairSession == SpecSession /\ WF_vars(\E t \in TabIds : poll(t)) /\ WF_vars(CallStep)


\* ---------------------------------------------------------------------
\* SpecProfile: one tab that goes between Settings, with its subscription
\* card, and the Transactions page, in one session; the profile is edited
\* and check-subscription runs.
InitProfile ==
  /\ now = StartDay
  /\ rows = FullWeek
  /\ profile \in {FreeProfile, ProProfile(1)}
  /\ ledger \in {[customer |-> TRUE, subs |-> <<>>],
                 [customer |-> TRUE, subs |-> <<Subscription(1)>>]}
  /\ user = LoadUser(profile)
  /\ views = {<<"t1", "subscription">>, <<"t1", "transactions">>}
  /\ InitPages
  /\ InitHooks
  /\ InitAccount

NextProfile ==
  \/ \E t \in TabIds, k \in HookPages : MountHook(t, k)
  \/ \E t \in TabIds, k \in Kinds : Mount(t, k)
  \/ \E t \in TabIds : Unmount(t)
  \/ \E t \in TabIds : poll(t)
  \/ CallStep
  \/ \E t \in TabIds, r \in Requests, ok \in BOOLEAN : checkWeeklyLimit(t, r, ok)
  \/ \E t \in TabIds : handleOpenDialog(t, FALSE)
  \/ \E t \in TabIds : closeDialog(t)
  \/ \E data \in ProfileEdits, ok \in BOOLEAN : updateProfile(data, ok)
  \/ \E fullName \in Names, ok \in BOOLEAN : onSubmit(fullName, ok)
  \/ \E hasSession \in {TRUE} : onAuthStateChange(hasSession)

SpecProfile == InitProfile /\ [][NextProfile]_vars

\* A call of check-subscription is sent from tab t in this step.
Invoked(t) == Len(calls'[t]) = Len(calls[t]) + 1

\* C16: with a session, the hook invokes check-subscription when it mounts,
\* when the user becomes available and on every tick of the interval, so
\* that it is invoked again and again for as long as the interval of a
\* signed-in user stays set; without a session a tick sends no call; and the
\* interval is cleared when the hook unmounts and set again for the new user
\* when the user changes.
C16_Polling ==
  /\ [][\A t \in TabIds :
          /\ ((\E k \in HookPages : MountHook(t, k)) /\ user.id # "none")
               => (Invoked(t) /\ timer'[t] = "armed")
          /\ (page[t] \in HookPages /\ page'[t] = page[t]
                /\ user.id = "none" /\ user'.id # "none")
               => (Invoked(t) /\ timer'[t] = "armed")
          /\ (poll(t) /\ user.id # "none") => Invoked(t)
          /\ (poll(t) /\ user.id = "none") => calls'[t] = calls[t]]_vars
  /\ [](\A t \in TabIds :
          timer[t] = (IF page[t] \notin HookPages THEN "off"
                      ELSE IF user.id # "none" THEN "armed" ELSE "idle"))
  /\ \A t \in TabIds : <>[](timer[t] = "armed") => []<><<Invoked(t)>>_vars

\* A second call is in flight in a session whose first call has set the
\* status to pro.
C16_Witness ==
  /\ user.id # "none"
  /\ timer["t1"] = "armed"
  /\ status["t1"].planType = "pro"
  /\ status["t1"].isLoading
  /\ Len(calls["t1"]) = 1
  /\ calls["t1"][1].pc = "customers"


\* ---------------------------------------------------------------------
\* SpecReturn: a free owner whose tab shows Settings or the Dashboard goes to
\* the hosted checkout and comes back.
InitReturn ==
  /\ now = StartDay
  /\ rows = FullWeek
  /\ profile = FreeProfile
  /\ ledger \in {[customer |-> FALSE, subs |-> <<>>], [customer |-> TRUE, subs |-> <<>>]}
  /\ user = LoadUser(profile)
  /\ views = {<<"t1", k>> : k \in HookPages}
  /\ InitPages
  /\ InitHooks
  /\ InitAccount

SpecReturn == InitReturn /\ [][NextBilling]_vars

\* C17: a view loaded with the checkout parameter set to success or to
\* cancelled removes the parameter and sets the delayed call, and when the
\* delay is over a call of check-subscription is sent, also when the user was
\* not yet loaded when the hook first rendered.
C17_ReturnReconciles ==
  /\ [][\A t \in TabIds, k \in HookPages :
          (MountHook(t, k) /\ query[t] # "")
            => (query'[t] = "" /\ delayed'[t] # "off")]_vars
  /\ [][\A t \in TabIds : delayedCheck(t) => Invoked(t)]_vars


PlanFields(p) == <<p.plantype, p.planstartdate, p.planexpirydate>>

\* C18: the plan tier, plan start and plan expiry of the profile change only
\* in the update of check-subscription; updateProfile, whatever its data, and
\* the save of Settings leave them as they are.
C18_PlanFieldsReconcilerOnly ==
  [][PlanFields(profile') # PlanFields(profile)
       => \E t \in TabIds, i \in Slots : profilesUpdate(t, i, TRUE)]_vars


\* C19: a quota check sent from the Transactions or the Clients page, and a
\* creation decision taken there, uses the plan tier the profile holds, the
\* one the last check-subscription of the session wrote.
C19_QuotaUsesReconciledTier ==
  [][\A t \in TabIds :
       ((\E k \in Kinds : Mount(t, k)) \/ handleOpenDialog(t, FALSE))
         => /\ user.planType = profile.plantype
            /\ \A r \in checks'[t] \ checks[t] : r.planType = profile.plantype]_vars


\* C20: when a free owner submits a new transaction or client, the count the
\* decision rests on is the count of the store at that moment, read during
\* the attempt, and no count kept in the state of the page by an earlier
\* check.
C20_DecisionOnFreshCount ==
  [][\A t \in TabIds :
       (user.planType = "free" /\ ~editing[t] /\ checks[t] = {} /\ handleSubmit(t))
         => /\ weeklyLimit[t].count = NotOlder(page[t], now)
            /\ NotOlder(page[t], now) < 5]_vars


\* C29: the quota gates creation only.  On a page with a signed-in owner,
\* whatever the tier and the count, the edit dialog of a stored row opens, an
\* update can be submitted, and a stored row can be deleted.
C29_EditDeleteNotGated ==
  \A t \in TabIds :
    (page[t] \in Kinds /\ user.id # "none") =>
      /\ (~openDialog[t] /\ CountSince(page[t], Me, 0) > 0)
           => ENABLED handleOpenDialog(t, TRUE)
      /\ (openDialog[t] /\ editing[t] /\ submit[t] = "idle")
           => ENABLED handleSubmit(t)
      /\ \A d \in Times :
           (~openDialog[t] /\ rows[Me][page[t]][d] > 0)
             => ENABLED handleDelete(t, d, TRUE)

\* A free owner at 5 of 5, refused for creation, has submitted an update.
C29_Witness ==
  /\ user.planType = "free"
  /\ weeklyLimit["t1"] = [count |-> 5, limit |-> 5, canCreate |-> FALSE]
  /\ NotOlder(page["t1"], now) = 5
  /\ editing["t1"]
  /\ submit["t1"] = "update"


\* ---------------------------------------------------------------------
\* SpecChurn: a free owner with five rows of one table created the day
\* before, on the page of that table, on one day: every row of that day is a creation of
\* this run and every row missing from the day before is a deletion.
InitChurn ==
  /\ now = StartDay
  /\ \E k \in Kinds :
       /\ rows = [o \in Owners |-> [j \in Kinds |-> [d \in Times |->
                   IF o = Me /\ j = k /\ d = StartDay - 1 THEN FreeLimit ELSE 0]]]
       /\ views = {<<"t1", k>>}
  /\ profile = FreeProfile
  /\ ledger = [customer |-> FALSE, subs |-> <<>>]
  /\ user = LoadUser(profile)
  /\ InitPages
  /\ InitHooks
  /\ InitAccount

SpecChurn == InitChurn /\ [][NextQuota]_vars

\* C30: the count is the number of rows stored in the window.  A successful
\* delete of a row of the window lowers it by one, an answered check reports
\* the rows stored at that moment, and a free owner is allowed whenever fewer
\* than 5 are stored, however many rows were created in the window before.
C30_CountIsStoredRows ==
  [][\A t \in TabIds :
       /\ \A d \in Times :
            (handleDelete(t, d, TRUE) /\ now - d <= WindowDays)
              => NotOlder(page[t], now)' = NotOlder(page[t], now) - 1
       /\ \A r \in Requests :
            (r.planType = "free" /\ r.at = now /\ checkWeeklyLimit(t, r, TRUE))
              => /\ weeklyLimit'[t].count = Cardinality(RowSet(page[t]))
                                              - Cardinality({x \in RowSet(page[t]) :
                                                               now - x[1] > WindowDays})
                 /\ weeklyLimit'[t].canCreate = (NotOlder(page[t], now) < 5)]_vars

\* Six clients were created within the window, the five of the day
\* before and one today after one of the five was deleted, and the check
\* answers 5 of 5.
C30_Witness ==
  /\ user.planType = "free"
  /\ page["t1"] = "clients"
  /\ rows[Me]["clients"][StartDay - 1] = 4
  /\ rows[Me]["clients"][now] = 1
  /\ weeklyLimit["t1"] = [count |-> 5, limit |-> 5, canCreate |-> FALSE]
  /\ checks["t1"] = {}


\* C26: when check-subscription answers the hook with an error, subscribed,
\* planType and planExpiryDate stay as they were before the call, error is
\* set and isLoading is false: a pro tier on display is not turned to free.
C26_FailureKeepsStatus ==
  [][\A t \in TabIds, i \in Slots :
       (checkSubscriptionDone(t, i) /\ calls[t][i].status # 200) =>
         /\ status'[t].subscribed = status[t].subscribed
         /\ status'[t].planType = status[t].planType
         /\ status'[t].planExpiryDate = status[t].planExpiryDate
         /\ status'[t].error
         /\ ~status'[t].isLoading]_vars

\* A hook that shows pro after a failed call.
C26_Witness ==
  /\ status["t1"].planType = "pro"
  /\ status["t1"].subscribed
  /\ status["t1"].error
  /\ ~status["t1"].isLoading


\* C28: for as long as a hook is mounted without a user, its status is
\* subscribed false, planType free, planExpiryDate null and isLoading false,
\* also when a call sent before the user became null is answered afterwards.
C28_SignedOutStatusStays ==
  \A t \in TabIds :
    (page[t] \in HookPages /\ user.id = "none") =>
      /\ ~status[t].subscribed
      /\ status[t].planType = "free"
      /\ status[t].planExpiryDate = Null
      /\ ~status[t].isLoading


\* ---------------------------------------------------------------------
\* SpecOverlap: the subscription card in the tab where calls overlap, while
\* the subscription at Stripe starts and ends.
InitOverlap ==
  /\ now = StartDay
  /\ rows = FullWeek
  /\ profile = FreeProfile
  /\ ledger \in {[customer |-> TRUE, subs |-> <<>>],
                 [customer |-> TRUE, subs |-> <<Subscription(1)>>]}
  /\ user = LoadUser(profile)
  /\ views = {<<"t2", "subscription">>}
  /\ InitPages
  /\ InitHooks
  /\ InitAccount

NextOverlap ==
  \/ \E t \in TabIds, k \in HookPages : MountHook(t, k)
  \/ \E t \in TabIds : Unmount(t)
  \/ \E t \in TabIds : poll(t)
  \/ CallStep
  \/ \E k \in 1..MaxSubs : subscriptionCreated(k)
  \/ subscriptionEnded

SpecOverlap == InitOverlap /\ [][NextOverlap]_vars

\* C27: when two calls of a hook overlap, the response of the call sent
\* first, arriving after the hook has taken the snapshot answered to a call
\* sent later, does not change subscribed, planType and planExpiryDate.
C27_LastIssuedWins ==
  [][\A t \in TabIds, i \in Slots :
       (checkSubscriptionDone(t, i) /\ calls[t][i].stale) =>
         /\ status'[t].subscribed = status[t].subscribed
         /\ status'[t].planType = status[t].planType
         /\ status'[t].planExpiryDate = status[t].planExpiryDate]_vars


\* ---------------------------------------------------------------------
\* SpecLinks: the subscription card and its two links to the hosted pages,
\* left without a change at Stripe.
InitLinks ==
  /\ now = StartDay
  /\ rows = FullWeek
  /\ profile \in {FreeProfile, ProProfile(1)}
  /\ ledger \in {[customer |-> FALSE, subs |-> <<>>],
                 [customer |-> TRUE, subs |-> <<>>],
                 [customer |-> TRUE, subs |-> <<Subscription(1)>>]}
  /\ user = LoadUser(profile)
  /\ views = {<<"t1", "subscription">>}
  /\ InitPages
  /\ InitHooks
  /\ InitAccount

NextLinks ==
  \/ \E t \in TabIds, k \in HookPages : MountHook(t, k)
  \/ \E t \in TabIds : Unmount(t)
  \/ CallStep
  \/ \E t \in TabIds, ok \in BOOLEAN : createCheckoutSession(t, ok)
  \/ \E t \in TabIds, ok \in BOOLEAN : openCustomerPortal(t, ok)
  \/ \E t \in TabIds : returnToApp(t)
  \/ getSession

SpecLinks == InitLinks /\ [][NextLinks]_vars

InitAuth ==
  /\ now = StartDay
  /\ rows = AlmostFull("transactions")
  /\ profile = FreeProfile
  /\ ledger = [customer |-> TRUE, subs |-> <<Subscription(1)>>]
  /\ user \in {NoUser, LoadUser(profile)}
  /\ views = {<<"t1", "transactions">>, <<"t1", "dashboard">>, <<"t1", "subscription">>}
  /\ InitPages
  /\ InitHooks
  /\ InitAccount

NextAuth ==
  \/ \E t \in TabIds, k \in Kinds : Mount(t, k)
  \/ \E t \in TabIds, k \in HookPages : MountHook(t, k)
  \/ \E t \in TabIds : Unmount(t)
  \/ \E t \in TabIds : poll(t)
  \/ CallStep
  \/ \E t \in TabIds, r \in Requests, ok \in BOOLEAN : checkWeeklyLimit(t, r, ok)
  \/ \E t \in TabIds, isEdit \in BOOLEAN : handleOpenDialog(t, isEdit)
  \/ \E t \in TabIds : handleSubmit(t)
  \/ \E t \in TabIds, ok \in BOOLEAN : submitDone(t, ok)
  \/ getSession
  \/ \E hasSession \in BOOLEAN : onAuthStateChange(hasSession)
  \/ \E t \in TabIds, ok \in BOOLEAN : openCustomerPortal(t, ok)
  \/ \E t \in TabIds : returnToApp(t)

SpecAuth == InitAuth /\ [][NextAuth]_vars


InitAccounts ==
  /\ now = StartDay
  /\ rows = [o \in Owners |-> [k \in Kinds |-> [d \in Times |->
               IF d = StartDay - 1 THEN 1 ELSE 0]]]
  /\ profile = FreeProfile
  /\ ledger = [customer |-> FALSE, subs |-> <<>>]
  /\ user \in {NoUser, LoadUser(profile)}
  /\ views = {}
  /\ InitPages
  /\ InitHooks
  /\ InitAccount

NextAccount ==
  \/ \E email \in Emails, password \in Passwords : signIn(email, password)
  \/ \E email \in Emails, password \in Passwords, fullName \in Names :
       signUp(email, password, fullName)
  \/ \E ok \in BOOLEAN : authSignOut(ok)
  \/ \E ok \in BOOLEAN : signInWithPassword(ok)
  \/ \E ok \in BOOLEAN : authSignUp(ok)
  \/ \E ok \in BOOLEAN : profilesInsert(ok)
  \/ deleteAccount
  \/ \E ok \in BOOLEAN : deleteFrom(ok)
  \/ \E ok \in BOOLEAN : adminDeleteUser(ok)
  \/ \E ok \in BOOLEAN : updateUser(ok)
  \/ \E ok \in BOOLEAN : deleteAccountSignOut(ok)
  \/ getSession
  \/ \E hasSession \in BOOLEAN : onAuthStateChange(hasSession)

SpecAccount == InitAccounts /\ [][NextAccount]_vars

\* C22: whenever deleteAccount raises the toast 'Conta excluída', no row of
\* transactions or clients and no profile of that owner is left in the
\* store, whatever the delete steps before it answered.
C22_DeleteAccountCascades ==
  [][("Conta excluída" \notin auth.toasts /\ "Conta excluída" \in auth'.toasts) =>
       /\ \A k \in Kinds, d \in Times : rows'[auth.uid][k][d] = 0
       /\ ~\E r \in supabase'.profiles : r.id = auth.uid]_vars

\* C23: a signUp whose address the provider has accepted as new was sent
\* with the e-mail, the password and the full name, ends without an error
\* and leaves exactly one profile row of the new owner, of tier free.
C23_SignUpProvisionsOneProfile ==
  [][(auth.pc = "signUp:insert" /\ auth'.pc = "idle") =>
       /\ auth.trace[3] = Effect("signUp", auth.email, auth.password, auth.fullName)
       /\ ~auth'.thrown
       /\ "Erro ao criar conta" \notin auth'.toasts
       /\ Cardinality({r \in supabase'.profiles : r.id = auth.uid}) = 1
       /\ \A r \in supabase'.profiles : r.id = auth.uid => r.plantype = "free"]_vars

\* C25: signIn(email, password) clears the stored auth state before it
\* calls the provider, then attempts the global sign-out and, whether that
\* succeeded or not, calls signInWithPassword with the e-mail and password
\* it was given and nothing else; a sign-in the provider refuses raises the
\* toast 'Erro ao fazer login' and is rethrown, and loading is false when
\* signIn ends.
C25_SignInSequence ==
  [][/\ \A email \in Emails, password \in Passwords :
          signIn(email, password) =>
            /\ ~supabase'.session
            /\ auth'.loading
            /\ auth'.email = email /\ auth'.password = password
            /\ auth'.trace = <<Effect("cleanupAuthState", "", "", "")>>
     /\ \A ok \in BOOLEAN :
          (auth.pc = "signIn:signOut" /\ authSignOut(ok)) =>
            /\ auth'.pc = "signIn:password"
            /\ ~auth'.thrown
            /\ auth'.email = auth.email /\ auth'.password = auth.password
     /\ \A ok \in BOOLEAN :
          signInWithPassword(ok) =>
            /\ auth'.trace = <<Effect("cleanupAuthState", "", "", ""),
                               Effect("signOut", "", "", ""),
                               Effect("signInWithPassword", auth.email,
                                      auth.password, "")>>
            /\ auth'.pc = "idle"
            /\ ~auth'.loading
            /\ ~ok => (auth'.thrown /\ "Erro ao fazer login" \in auth'.toasts
                         /\ auth'.location = "")
            /\ ok => (~auth'.thrown /\ auth'.location = "/dashboard")
     /\ (auth.pc \in {"signIn:signOut", "signIn:password"} /\ auth'.pc # "idle") =>
          (auth'.email = auth.email /\ auth'.password = auth.password)]_vars

\* A sign-in with the owner's address and a password the provider refuses
\* has ended: the state was cleared, both calls were made, the error was
\* reported and rethrown.
C25_Witness ==
  /\ auth.pc = "idle"
  /\ Len(auth.trace) = 3
  /\ auth.trace[3].op = "signInWithPassword"
  /\ auth.trace[3].email = "me@x" /\ auth.trace[3].password = "q"
  /\ auth.thrown
  /\ ~auth.loading
  /\ "Erro ao fazer login" \in auth.toasts
====
